---- MODULE Spec2Model ----
(***************************************************************************)
(* Model of the resume utilities of src/src/utils/doc_utils.py:            *)
(*   parse_resume            (lines 46-137)                                *)
(*   get_years_of_experience (lines 140-198)                               *)
(* and of the review search of src/src/utils/search_utils.py:              *)
(*   search_reviews, search_reviews_all_companies (lines 16-60)            *)
(*   filter_and_format_reviews                    (lines 62-86)            *)
(*                                                                         *)
(* Text is modelled as a sequence of lexical items.  For parse_resume an   *)
(* item is a string standing for one piece of page text: a section header  *)
(* ("Education", ...), a plain word ("text"), a line break ("\n") or the   *)
(* text of a job-dated entry ("Acme Jan 2019 - Mar 2022").  Offsets count  *)
(* items, 0-based as in Python; a header pattern is the header literal, so *)
(* re.finditer finds exactly the positions holding that item.              *)
(***************************************************************************)
EXTENDS Integers, Sequences, FiniteSets, TLC

(***************************************************************************)
(* Bounds of the model.                                                    *)
(***************************************************************************)
MaxPages == 2
MaxPageMatches == 3
MaxDocMatches == 5

(***************************************************************************)
(* Inputs of parse_resume.                                                 *)
(***************************************************************************)
resume_sections == <<"Education", "Skills", "Experience", "Projects", "Awards">>

OtherKey == "Hobbies"

ExperienceKeys == {"Experience", OtherKey}

NL == "\n"
Word == "text"
JobLine == "Acme Jan 2019 - Mar 2022"
DefaultLabel == "Professional Experience"

Whitespace == {NL}

VARIABLES
    doc_pages,       \* parse_resume: the pages of the document
    experience_key,  \* both functions: the key of the experience section
    i,               \* parse_resume: number of pages processed so far
    resume_dict,     \* the mapping parse_resume builds; the mapping
                     \* get_years_of_experience is called with
    pc,              \* position of the running function; "returned" or
                     \* "raised" once it is left
    err,             \* the exception that left the function, or "none"
    experiences,     \* get_years_of_experience: the experience text
    year_months,     \* get_years_of_experience: the located tokens
    parse_dates,     \* get_years_of_experience: the parsed dates
    years,           \* get_years_of_experience: the value returned
    companies,       \* search_reviews_all_companies: the company names
    batch_size,      \* search_reviews_all_companies: the batch size
    i_batch,         \* search_reviews_all_companies: the loop variable i
    tasks,           \* the tasks of the current batch, as positions in
                     \* companies (1-based)
    searches,        \* per position in companies, the search_reviews
                     \* coroutine for it: its state and its result
    completed,       \* the positions in the order their searches finished
    all_results,     \* search_reviews_all_companies: the list returned
    aborting,        \* the task group of the current batch has asked its
                     \* unfinished tasks to cancel
    calls,           \* two invocations running side by side, each with
                     \* its own arguments and local variables
    schedule,        \* which of the two invocations took each step so far
    obj,             \* filter_and_format_reviews: the review records of
                     \* the list it is called with, as they are now
    obj_before,      \* the same records as they were when it was called
    filtered_reviews,\* filter_and_format_reviews: the list it builds, as
                     \* positions in obj (its elements are the very
                     \* records of obj, not copies)
    rev              \* filter_and_format_reviews: the position in
                     \* filtered_reviews of the cleaning loop

searchVars == <<companies, batch_size, i_batch, tasks, searches, completed,
                all_results, aborting>>

pairVars == <<calls, schedule>>

filterVars == <<obj, obj_before, filtered_reviews, rev>>

vars == <<doc_pages, experience_key, i, resume_dict, pc, err,
          experiences, year_months, parse_dates, years,
          searchVars, pairVars, filterVars>>

yearsVars == <<experiences, year_months, parse_dates, years>>

otherVars == <<searchVars, pairVars, filterVars>>

(***************************************************************************)
(* Python helpers.                                                         *)
(***************************************************************************)
Min2(a, b) == IF a <= b THEN a ELSE b

\* s[a:b] for 0 <= a, 0 <= b
Slice(s, a, b) ==
    IF a >= Min2(b, Len(s)) THEN <<>> ELSE SubSeq(s, a + 1, Min2(b, Len(s)))

\* s[a:]
SliceFrom(s, a) == Slice(s, a, Len(s))

RECURSIVE LStrip(_)
LStrip(s) ==
    IF s # <<>> /\ Head(s) \in Whitespace THEN LStrip(Tail(s)) ELSE s

RECURSIVE RStrip(_)
RStrip(s) ==
    IF s # <<>> /\ s[Len(s)] \in Whitespace
    THEN RStrip(SubSeq(s, 1, Len(s) - 1))
    ELSE s

\* s.strip("\n\n").strip()
Strip(s) == RStrip(LStrip(s))

EmptyDict == [k \in {} |-> <<>>]

\* d[k] = v
Put(d, k, v) == [x \in (DOMAIN d) \cup {k} |-> IF x = k THEN v ELSE d[x]]

\* d.get(k, default)
Get(d, k, default) == IF k \in DOMAIN d THEN d[k] ELSE default

(***************************************************************************)
(* Section locator: lines 93-102.                                          *)
(***************************************************************************)
\* re.finditer(section, page): the spans [start, end) of the occurrences of
\* the header literal at or after the item `from`, in offset order
RECURSIVE FindIter(_, _, _)
FindIter(section, page, from) ==
    IF from > Len(page) THEN <<>>
    ELSE IF page[from] = section
         THEN <<[start |-> from - 1, end |-> from]>>
                  \o FindIter(section, page, from + 1)
         ELSE FindIter(section, page, from + 1)

\* the loop "for section in sections: for result in results": the spans in
\* the order the code appends them to max_spans and min_spans
RECURSIVE SpansFrom(_, _)
SpansFrom(s, page) ==
    IF s > Len(resume_sections) THEN <<>>
    ELSE FindIter(resume_sections[s], page, 1) \o SpansFrom(s + 1, page)

Spans(page) == SpansFrom(1, page)

\* max_span: the end offset of the match appended last, 0 without a match
max_span(spans) == IF spans = <<>> THEN 0 ELSE spans[Len(spans)].end

\* min(min_spans), for a page with a match
RECURSIVE min_span_from(_, _)
min_span_from(spans, k) ==
    IF k = Len(spans) THEN spans[k].start
    ELSE Min2(spans[k].start, min_span_from(spans, k + 1))

min_span(spans) == min_span_from(spans, 1)

\* the offset at which the line of the item p starts (^ under re.MULTILINE)
LineStart(page, p) ==
    LET breaks == {q \in 1..(p - 1) : page[q] = NL}
    IN IF breaks = {} THEN 0
       ELSE CHOOSE q \in breaks : \A r \in breaks : r <= q

\* the item p ends its line ($ under re.MULTILINE)
EndsLine(page, p) == p = Len(page) \/ page[p + 1] = NL

\* re.finditer(job_experience_pattern, page, re.MULTILINE): the start offset
\* of every line whose text ends with a job-dated entry
job_exper(page) ==
    {LineStart(page, p) : p \in {q \in 1..Len(page) :
                                    page[q] = JobLine /\ EndsLine(page, q)}}

\* job_exper[0].span()[0]: the start of the first job-dated line
additional_experience(page) ==
    CHOOSE a \in job_exper(page) : \A b \in job_exper(page) : a <= b

(***************************************************************************)
(* Section assembler: lines 104-135.                                       *)
(***************************************************************************)
\* the position in resume_sections (0-based) the match idx is stored under:
\* sections[idx] on page 1, sections[idx + sections_size] on later pages,
\* where sections_size = len(max_spans) of the page being processed
TargetIndex(pageNo, idx, sections_size) ==
    IF pageNo = 1 THEN idx ELSE idx + sections_size

\* page[max_spans[idx]:max_spans[idx+1]] or page[span:], stripped
section_result(page, spans, idx) ==
    IF spans[idx + 1].end # max_span(spans)
    THEN Strip(Slice(page, spans[idx + 1].end, spans[idx + 2].end))
    ELSE Strip(SliceFrom(page, spans[idx + 1].end))

\* page[additional_experience:min_span]
Continuation(page, spans) ==
    Slice(page, additional_experience(page), min_span(spans))

\* line 132: resume_dict[experience_key] = resume_dict.get(...) + "\n" + ...
AppendContinuation(dict, key, page, spans) ==
    Put(dict, key,
        Get(dict, key, <<DefaultLabel>>) \o <<NL>> \o Continuation(page, spans))

\* one iteration of "for idx, span in enumerate(max_spans)" (lines 107-135);
\* the result is the mapping after the iteration and the exception raised
AssignStep(page, spans, pageNo, key, idx, dict) ==
    LET last   == spans[idx + 1].end = max_span(spans)
        target == TargetIndex(pageNo, idx, Len(spans))
    IN IF ~last /\ idx + 2 > Len(spans)
       THEN [dict |-> dict, err |-> "IndexError"]
       ELSE IF pageNo # 1 /\ last /\ job_exper(page) = {}
       THEN [dict |-> dict, err |-> "IndexError"]
       ELSE LET d1 == IF pageNo # 1 /\ last
                      THEN AppendContinuation(dict, key, page, spans)
                      ELSE dict
            IN IF target >= Len(resume_sections)
               THEN [dict |-> d1, err |-> "IndexError"]
               ELSE [dict |-> Put(d1, resume_sections[target + 1],
                                  section_result(page, spans, idx)),
                     err |-> "none"]

\* the iterations idx, idx+1, ... of the loop, stopping at an exception
RECURSIVE AssignLoop(_, _, _, _, _, _)
AssignLoop(page, spans, pageNo, key, idx, dict) ==
    IF idx >= Len(spans) THEN [dict |-> dict, err |-> "none"]
    ELSE LET r == AssignStep(page, spans, pageNo, key, idx, dict)
         IN IF r.err # "none" THEN r
            ELSE AssignLoop(page, spans, pageNo, key, idx + 1, r.dict)

\* one iteration of "for i, page in enumerate(doc_pages, 1)" (lines 91-135)
ProcessPageResult(page, pageNo, key, dict) ==
    LET spans == Spans(page)
    IN IF spans = <<>>
       THEN [dict |-> dict, err |-> "ValueError"]   \* min() of an empty list
       ELSE AssignLoop(page, spans, pageNo, key, 0, dict)

(***************************************************************************)
(* The documents the model runs parse_resume on.  A page is an optional    *)
(* job-dated line followed by sections, each a header on a line of its own *)
(* and a body line; the headers of a page are any sequence of configured   *)
(* headers (absent, repeated and out-of-order headers included).           *)
(***************************************************************************)
Headers == {resume_sections[k] : k \in 1..Len(resume_sections)}

SectionBody(h) ==
    IF h = "Experience" THEN <<NL, JobLine, NL>> ELSE <<NL, Word, NL>>

RECURSIVE Layout(_)
Layout(hs) ==
    IF hs = <<>> THEN <<>>
    ELSE <<Head(hs)>> \o SectionBody(Head(hs)) \o Layout(Tail(hs))

Preambles == {<<>>, <<JobLine, NL>>}

HeaderSeqs == UNION {[1..k -> Headers] : k \in 0..MaxPageMatches}

\* the document of the pages pre[k] \o Layout(hs[k])
Document(pre, hs) == [k \in DOMAIN hs |-> pre[k] \o Layout(hs[k])]

RECURSIVE TotalLen(_, _)
TotalLen(hs, k) ==
    IF k > Len(hs) THEN 0 ELSE Len(hs[k]) + TotalLen(hs, k + 1)

(***************************************************************************)
(* parse_resume as a state machine: one step per page, then the return.    *)
(***************************************************************************)
\* Python's None as a return value of get_years_of_experience; a number is
\* held in hundredths (316 stands for 3.16)
None == [none |-> TRUE, hundredths |-> 0]
Float(h) == [none |-> FALSE, hundredths |-> h]

YearsIdle ==
    /\ experiences = <<>>
    /\ year_months = <<>>
    /\ parse_dates = <<>>
    /\ years = None

\* search_reviews_all_companies is not running
SearchIdle ==
    /\ companies = <<>>
    /\ batch_size = 2
    /\ i_batch = 0
    /\ tasks = <<>>
    /\ searches = <<>>
    /\ completed = <<>>
    /\ all_results = <<>>
    /\ aborting = FALSE

\* no pair of invocations is running
PairIdle ==
    /\ calls = <<>>
    /\ schedule = <<>>

\* filter_and_format_reviews is not running
FilterIdle ==
    /\ obj = <<>>
    /\ obj_before = <<>>
    /\ filtered_reviews = <<>>
    /\ rev = 0

\* the documents of at most MaxPages pages and MaxDocMatches header matches,
\* at most MaxPageMatches of them on one page
Init ==
    /\ \E n \in 0..MaxPages :
           \E hs \in [1..n -> HeaderSeqs], pre \in [1..n -> Preambles] :
               /\ TotalLen(hs, 1) <= MaxDocMatches
               /\ doc_pages = Document(pre, hs)
    /\ experience_key \in ExperienceKeys
    /\ i = 0
    /\ resume_dict = EmptyDict
    /\ pc = "loop"
    /\ err = "none"
    /\ YearsIdle
    /\ SearchIdle
    /\ PairIdle
    /\ FilterIdle

NextPage == ProcessPageResult(doc_pages[i + 1], i + 1, experience_key, resume_dict)

\* a page is processed to its end
ProcessPage ==
    /\ pc = "loop"
    /\ i < Len(doc_pages)
    /\ NextPage.err = "none"
    /\ resume_dict' = NextPage.dict
    /\ i' = i + 1
    /\ UNCHANGED <<doc_pages, experience_key, pc, err, yearsVars, otherVars>>

\* an exception leaves parse_resume while a page is processed
PageRaises ==
    /\ pc = "loop"
    /\ i < Len(doc_pages)
    /\ NextPage.err # "none"
    /\ pc' = "raised"
    /\ err' = NextPage.err
    /\ UNCHANGED <<doc_pages, experience_key, i, resume_dict, yearsVars,
                   otherVars>>

\* line 137: return resume_dict
Return ==
    /\ pc = "loop"
    /\ i = Len(doc_pages)
    /\ pc' = "returned"
    /\ UNCHANGED <<doc_pages, experience_key, i, resume_dict, err, yearsVars,
                   otherVars>>

Next == ProcessPage \/ PageRaises \/ Return

Spec == Init /\ [][Next]_vars

(***************************************************************************)
(* get_years_of_experience: lines 174-198.  The experience text is a       *)
(* sequence of items [name, sep, yr]: a word `name`, and for yr > 0 the    *)
(* separator `sep` and the digits `yr` that follow it ("Jan 2019" is       *)
(* [name |-> "Jan", sep |-> " ", yr |-> 2019]; a plain word has yr = 0).   *)
(* Items are separated by blanks in the text.                              *)
(***************************************************************************)
MaxTokens == 3
DaysPerYear == 365

Item(name, sep, yr) == [name |-> name, sep |-> sep, yr |-> yr]

\* str.lower() on the words of the model's vocabulary
Lower(name) ==
    CASE name = "Jan" -> "jan"
      [] name = "Mar" -> "mar"
      [] name = "March" -> "march"
      [] name = "Present" -> "present"
      [] OTHER -> name

AbbrMonths == <<"jan", "feb", "mar", "apr", "may", "jun",
                "jul", "aug", "sep", "oct", "nov", "dec">>

FullMonths == <<"january", "february", "march", "april", "may", "june",
                "july", "august", "september", "october", "november",
                "december">>

\* the month names years_pattern accepts (re.IGNORECASE)
PatternMonths ==
    {AbbrMonths[m] : m \in 1..12} \cup {FullMonths[m] : m \in 1..12} \cup {"sept"}

\* the separators [-\s/]* accepts, among those of the model's vocabulary
PatternSeps == {"", " ", "-", "/"}

\* years_pattern matches the item: a month name, separators, (19|20)\d{2}
Located(item) ==
    /\ Lower(item.name) \in PatternMonths
    /\ item.sep \in PatternSeps
    /\ item.yr \in 1900..2099

\* re.findall(years_pattern, experiences, re.IGNORECASE)
FindAll(text) == SelectSeq(text, Located)

\* datetime.strptime(token, "%b %Y") succeeds: an abbreviated month name,
\* white space, four digits
Parses(item) ==
    /\ \E m \in 1..12 : AbbrMonths[m] = Lower(item.name)
    /\ item.sep = " "
    /\ item.yr \in 1..9999

\* the date strptime returns: the first day of the month
StrpTime(item) ==
    [y |-> item.yr,
     m |-> CHOOSE m \in 1..12 : AbbrMonths[m] = Lower(item.name),
     d |-> 1]

IsLeap(y) == y % 4 = 0 /\ (y % 100 # 0 \/ y % 400 = 0)

DaysInMonth(y, m) ==
    IF m = 2 THEN (IF IsLeap(y) THEN 29 ELSE 28)
    ELSE IF m \in {4, 6, 9, 11} THEN 30 ELSE 31

\* days of the years before year y
DaysBeforeYear(y) ==
    (y - 1) * 365 + (y - 1) \div 4 - (y - 1) \div 100 + (y - 1) \div 400

RECURSIVE DaysBeforeMonth(_, _)
DaysBeforeMonth(y, m) ==
    IF m = 1 THEN 0 ELSE DaysBeforeMonth(y, m - 1) + DaysInMonth(y, m - 1)

\* date.toordinal()
Ordinal(date) == DaysBeforeYear(date.y) + DaysBeforeMonth(date.y, date.m) + date.d

\* date1 < date2
DateLess(a, b) ==
    \/ a.y < b.y
    \/ a.y = b.y /\ a.m < b.m
    \/ a.y = b.y /\ a.m = b.m /\ a.d < b.d

\* max(parse_dates) and min(parse_dates), for a list that is not empty
RECURSIVE MaxDate(_)
MaxDate(dates) ==
    IF Len(dates) = 1 THEN dates[1]
    ELSE LET rest == MaxDate(Tail(dates))
         IN IF DateLess(dates[1], rest) THEN rest ELSE dates[1]

\* variant of MinDate: the first date of the text
MinDate_First(dates) == dates[1]

RECURSIVE MinDate(_)
MinDate(dates) ==
    IF Len(dates) = 1 THEN dates[1]
    ELSE LET rest == MinDate(Tail(dates))
         IN IF DateLess(rest, dates[1]) THEN rest ELSE dates[1]

\* variant of total_days: the last date of the text minus the first
total_days_LastMinusFirst(dates) == Ordinal(dates[Len(dates)]) - Ordinal(dates[1])

\* line 193: (max(parse_dates) - min(parse_dates)).days
total_days(dates) == Ordinal(MaxDate(dates)) - Ordinal(MinDate(dates))

\* variant of Round2: the half is subtracted instead of added
Round2_Minus(days) ==
    (days * 200 - DaysPerYear) \div (2 * DaysPerYear)

\* variant of Round2: rounds up
Round2_Up(days) ==
    (days * 100 + DaysPerYear - 1) \div DaysPerYear

\* round(days / 365, 2), in hundredths; days * 100 / 365 is never half-way
\* between two integers
Round2(days) ==
    (days * 200 + DaysPerYear) \div (2 * DaysPerYear)

\* variant of ParseAll: a token that does not parse is skipped
RECURSIVE ParseAll_SkipBad(_)
ParseAll_SkipBad(tokens) ==
    IF tokens = <<>> THEN [dates |-> <<>>, err |-> "none"]
    ELSE LET rest == ParseAll_SkipBad(Tail(tokens))
         IN IF ~Parses(Head(tokens)) THEN rest
            ELSE [dates |-> <<StrpTime(Head(tokens))>> \o rest.dates,
                  err |-> "none"]

\* lines 186-190: the list of parsed dates, or the ValueError of strptime
\* caught by the except clause
RECURSIVE ParseAll(_)
ParseAll(tokens) ==
    IF tokens = <<>> THEN [dates |-> <<>>, err |-> "none"]
    ELSE IF ~Parses(Head(tokens)) THEN [dates |-> <<>>, err |-> "ValueError"]
    ELSE LET rest == ParseAll(Tail(tokens))
         IN IF rest.err # "none" THEN rest
            ELSE [dates |-> <<StrpTime(Head(tokens))>> \o rest.dates,
                  err |-> "none"]

(***************************************************************************)
(* The experience texts the model runs get_years_of_experience on.         *)
(***************************************************************************)
\* the word that stands for the dash U+2013 between two dates
EnDash == "en-dash"

Vocabulary ==
    {Item(n, " ", y) : n \in {"Jan", "Mar"}, y \in {2019, 2020, 2022}}
    \cup {Item("mar", " ", 2022),      \* lower case
          Item("March", " ", 2019),    \* full month name
          Item("Jan", "-", 2020),      \* "Jan-2020"
          Item("Jan", " ", 2150),      \* a year the pattern rejects
          Item("Present", "", 0),
          Item(EnDash, "", 0)}

Texts == UNION {[1..n -> Vocabulary] : n \in 0..MaxTokens}

ParseIdle ==
    /\ doc_pages = <<>>
    /\ i = 0
    /\ err = "none"

InitYears ==
    /\ experience_key = "Experience"
    /\ \/ resume_dict = EmptyDict
       \/ \E text \in Texts : resume_dict = [k \in {experience_key} |-> text]
    /\ pc = "get"
    /\ ParseIdle
    /\ YearsIdle
    /\ SearchIdle
    /\ PairIdle
    /\ FilterIdle

ReturnYears(value) ==
    /\ pc' = "returned"
    /\ years' = value

\* lines 174-176
GetExperiences ==
    /\ pc = "get"
    /\ IF experience_key \notin DOMAIN resume_dict \/ resume_dict[experience_key] = <<>>
       THEN ReturnYears(None) /\ UNCHANGED experiences
       ELSE /\ experiences' = resume_dict[experience_key]
            /\ pc' = "findall"
            /\ UNCHANGED years
    /\ UNCHANGED <<doc_pages, experience_key, i, resume_dict, err,
                   year_months, parse_dates, otherVars>>

\* variant of FindYearMonths: no return on an empty list of tokens
FindYearMonths_NoEmptyCheck ==
    /\ pc = "findall"
    /\ year_months' = FindAll(experiences)
    /\ pc' = "parse"
    /\ UNCHANGED <<doc_pages, experience_key, i, resume_dict, err,
                   experiences, parse_dates, years, otherVars>>

\* lines 183-185
FindYearMonths ==
    /\ pc = "findall"
    /\ year_months' = FindAll(experiences)
    /\ IF year_months' = <<>>
       THEN ReturnYears(None)
       ELSE pc' = "parse" /\ UNCHANGED years
    /\ UNCHANGED <<doc_pages, experience_key, i, resume_dict, err,
                   experiences, parse_dates, otherVars>>

\* lines 186-190
ParseDates ==
    /\ pc = "parse"
    /\ IF ParseAll(year_months).err # "none"
       THEN ReturnYears(None) /\ UNCHANGED parse_dates
       ELSE /\ parse_dates' = ParseAll(year_months).dates
            /\ pc' = "compute"
            /\ UNCHANGED years
    /\ UNCHANGED <<doc_pages, experience_key, i, resume_dict, err,
                   experiences, year_months, otherVars>>

\* lines 193-198; max() and min() raise ValueError on an empty list
ComputeYears ==
    /\ pc = "compute"
    /\ IF parse_dates = <<>>
       THEN pc' = "raised" /\ err' = "ValueError" /\ UNCHANGED years
       ELSE /\ IF total_days(parse_dates) < 0
               THEN ReturnYears(None)
               ELSE ReturnYears(Float(Round2(total_days(parse_dates))))
            /\ UNCHANGED err
    /\ UNCHANGED <<doc_pages, experience_key, i, resume_dict,
                   experiences, year_months, parse_dates, otherVars>>

NextYears == GetExperiences \/ FindYearMonths \/ ParseDates \/ ComputeYears

SpecYears == InitYears /\ [][NextYears]_vars

(***************************************************************************)
(* search_reviews and search_reviews_all_companies of                      *)
(* src/src/utils/search_utils.py (lines 16-60).  The caller builds one     *)
(* task per company of a batch inside an asyncio.TaskGroup; the event loop *)
(* runs each task up to its await of the search tool, the answers arrive   *)
(* in any order, and the caller goes on when every task of the group is    *)
(* done.  A search is named by its position in companies (1-based).        *)
(***************************************************************************)
MaxCompanies == 4
MaxBatchSize == 3

CompanyNames == {"Acme", "Bolt", "Core"}

\* a record of the search tool; the score is held in hundredths
Review(url, score) == [url |-> url, score |-> score]

\* line 32: what search_tool.ainvoke answers for a company, in its order
ToolOutputs(company) ==
    CASE company = "Acme" ->
             <<Review("a1", 50), Review("a2", 90), Review("a3", 50)>>
      [] company = "Bolt" -> <<Review("b1", 70)>>
      [] OTHER -> <<>>

\* line 35: {**out, "company": company}
WithCompany(out, company) ==
    [url |-> out.url, score |-> out.score, company |-> company]

\* x is placed behind the records whose score is not smaller
RECURSIVE InsertByScore(_, _)
InsertByScore(sorted, x) ==
    IF sorted = <<>> THEN <<x>>
    ELSE IF Head(sorted).score >= x.score
         THEN <<Head(sorted)>> \o InsertByScore(Tail(sorted), x)
         ELSE <<x>> \o sorted

\* sorted(..., reverse=True, key=lambda x: x["score"]): descending and
\* stable, records of equal score keep the order they had
RECURSIVE SortedByScore(_)
SortedByScore(outs) ==
    IF outs = <<>> THEN <<>>
    ELSE InsertByScore(SortedByScore(SubSeq(outs, 1, Len(outs) - 1)),
                       outs[Len(outs)])

\* the value search_reviews(company) returns (lines 35-38)
search_reviews(company) ==
    SortedByScore([k \in DOMAIN ToolOutputs(company) |->
                       WithCompany(ToolOutputs(company)[k], company)])

\* variant of Batch: every company from i0 on
Batch_Rest(i0, size) ==
    [k \in 1..(Len(companies) - i0) |-> i0 + k]

\* line 48: companies[i:i+batch_size], as positions
Batch(i0, size) ==
    [k \in 1..(Min2(i0 + size, Len(companies)) - i0) |-> i0 + k]

Positions(order) == {order[k] : k \in DOMAIN order}

\* variant of ResultOrder: the tasks in the order they finished
ResultOrder_Completion(ts, done) ==
    SelectSeq(done, LAMBDA c : c \in Positions(ts))

\* line 56: "for task in tasks", the order the results are taken in
ResultOrder(ts, done) == ts

\* lines 56-58: all_results.extend(task.result()) for the tasks from k on
RECURSIVE Extended(_, _, _)
Extended(results, order, k) ==
    IF k > Len(order) THEN results
    ELSE Extended(results \o searches[order[k]].result, order, k + 1)

NotCreated == [state |-> "none", result |-> <<>>]

InitSearch ==
    /\ companies \in UNION {[1..n -> CompanyNames] : n \in 0..MaxCompanies}
    /\ batch_size \in 1..MaxBatchSize
    /\ i_batch = 0
    /\ tasks = <<>>
    /\ searches = [c \in 1..Len(companies) |-> NotCreated]
    /\ completed = <<>>
    /\ all_results = <<>>
    /\ aborting = FALSE
    /\ pc = "for"
    /\ experience_key = "Experience"
    /\ resume_dict = EmptyDict
    /\ ParseIdle
    /\ YearsIdle
    /\ PairIdle
    /\ FilterIdle

idleVars == <<doc_pages, experience_key, i, resume_dict, err, yearsVars,
              pairVars, filterVars>>

\* lines 47-54: the next batch is cut, a new task group is entered and a
\* task is created for each company of the batch; no task has run yet
StartBatch ==
    /\ pc = "for"
    /\ i_batch < Len(companies)
    /\ tasks' = Batch(i_batch, batch_size)
    /\ searches' = [c \in DOMAIN searches |->
                       IF c \in Positions(tasks')
                       THEN [state |-> "pending", result |-> <<>>]
                       ELSE searches[c]]
    /\ aborting' = FALSE
    /\ pc' = "group"
    /\ UNCHANGED <<companies, batch_size, i_batch, completed, all_results,
                   idleVars>>

\* lines 20-32: the event loop runs a task up to its await of the search
\* tool; tasks take their first step in the order they were created
SendQuery(c) ==
    /\ pc = "group"
    /\ searches[c].state = "pending"
    /\ \A d \in 1..(c - 1) : searches[d].state # "pending"
    /\ searches' = [searches EXCEPT ![c].state = "running"]
    /\ UNCHANGED <<companies, batch_size, i_batch, tasks, completed,
                   all_results, aborting, pc, idleVars>>

\* lines 32-38: the answer of the search tool arrives and the task ends
\* with the sorted records; a task that was asked to cancel does not get
\* here, it ends cancelled whatever arrives
Complete(c) ==
    /\ pc = "group"
    /\ ~aborting
    /\ searches[c].state = "running"
    /\ searches' = [searches EXCEPT
                        ![c] = [state |-> "done",
                                result |-> search_reviews(companies[c])]]
    /\ completed' = Append(completed, c)
    /\ UNCHANGED <<companies, batch_size, i_batch, tasks, all_results,
                   aborting, pc, idleVars>>

\* lines 22-32: the search of a running task raises (the search tool or
\* the network fails); the task ends with the exception
Fail(c) ==
    /\ pc = "group"
    /\ ~aborting
    /\ searches[c].state = "running"
    /\ searches' = [searches EXCEPT ![c].state = "failed"]
    /\ completed' = Append(completed, c)
    /\ UNCHANGED <<companies, batch_size, i_batch, tasks, all_results,
                   aborting, pc, idleVars>>

\* line 52, first part: the event loop runs the callback of a task that
\* ended with an exception; the group asks its unfinished tasks to cancel.
\* Every task of the group has taken its first step by then (the first
\* steps were queued before the callback).  The function stays suspended
\* in the async with block.
RequestCancel ==
    /\ pc = "group"
    /\ ~aborting
    /\ \E c \in Positions(tasks) : searches[c].state = "failed"
    /\ \A c \in Positions(tasks) : searches[c].state # "pending"
    /\ aborting' = TRUE
    /\ UNCHANGED <<companies, batch_size, i_batch, tasks, searches, completed,
                   all_results, pc, idleVars>>

\* line 52, second part: a task that was asked to cancel is resumed with
\* CancelledError at its await (line 32) and ends cancelled; the function
\* is still suspended in the async with block
Cancel(c) ==
    /\ pc = "group"
    /\ aborting
    /\ searches[c].state = "running"
    /\ searches' = [searches EXCEPT ![c].state = "cancelled"]
    /\ UNCHANGED <<companies, batch_size, i_batch, tasks, completed,
                   all_results, aborting, pc, idleVars>>

\* line 52, third part: every task of the group has ended; the async with
\* block raises an ExceptionGroup, which leaves
\* search_reviews_all_companies
RaiseGroup ==
    /\ pc = "group"
    /\ aborting
    /\ \A c \in Positions(tasks) : searches[c].state # "running"
    /\ pc' = "raised"
    /\ err' = "ExceptionGroup"
    /\ UNCHANGED <<searchVars, doc_pages, experience_key, i, resume_dict,
                   yearsVars, pairVars, filterVars>>

\* variant of Settled: a task that ended with an exception counts as well
Settled_AnyOutcome(c) == searches[c].state \in {"done", "failed"}

\* line 52: the task c lets the async with block end normally
Settled(c) == searches[c].state = "done"

\* lines 52-58: the task group is left once all its tasks are done, the
\* results are collected and the loop goes to the next batch
CollectBatch ==
    /\ pc = "group"
    /\ \A c \in Positions(tasks) : Settled(c)
    /\ all_results' = Extended(all_results, ResultOrder(tasks, completed), 1)
    /\ i_batch' = i_batch + batch_size
    /\ pc' = "for"
    /\ UNCHANGED <<companies, batch_size, tasks, searches, completed,
                   aborting, idleVars>>

\* line 60: return all_results
ReturnResults ==
    /\ pc = "for"
    /\ i_batch >= Len(companies)
    /\ pc' = "returned"
    /\ UNCHANGED <<searchVars, idleVars>>

NextSearch ==
    \/ StartBatch
    \/ \E c \in DOMAIN searches : SendQuery(c)
    \/ \E c \in DOMAIN searches : Complete(c)
    \/ \E c \in DOMAIN searches : Fail(c)
    \/ RequestCancel
    \/ \E c \in DOMAIN searches : Cancel(c)
    \/ RaiseGroup
    \/ CollectBatch
    \/ ReturnResults

SpecSearch == InitSearch /\ [][NextSearch]_vars

\* the event loop runs what is ready: the first step of a created task, the
\* callback of a task that ended with an exception, the tasks asked to
\* cancel, and the function once its task group has no unfinished task
SpecSearchFair ==
    /\ SpecSearch
    /\ WF_vars(\E c \in DOMAIN searches : SendQuery(c))
    /\ WF_vars(RequestCancel)
    /\ WF_vars(\E c \in DOMAIN searches : Cancel(c))
    /\ WF_vars(RaiseGroup)

(***************************************************************************)
(* Two invocations of parse_resume or get_years_of_experience side by      *)
(* side, as two threads run them.  An invocation has its arguments and a   *)
(* frame of local variables; resume_dict of parse_resume is created in the *)
(* invocation (line 85) and every other name the functions assign is a     *)
(* local.  A step of parse_resume is a page, a step of                     *)
(* get_years_of_experience one of its stages.                              *)
(***************************************************************************)
ParseArgs(doc, key) ==
    [fn |-> "parse_resume", doc_pages |-> doc, resume_dict |-> EmptyDict,
     experience_key |-> key]

YearsArgs(dict, key) ==
    [fn |-> "get_years_of_experience", doc_pages |-> <<>>,
     resume_dict |-> dict, experience_key |-> key]

\* the local variables of an invocation before its first step
NewFrame(args) ==
    [fn |-> args.fn, i |-> 0, resume_dict |-> EmptyDict,
     pc |-> IF args.fn = "parse_resume" THEN "loop" ELSE "get",
     err |-> "none", experiences |-> <<>>, year_months |-> <<>>,
     parse_dates |-> <<>>, years |-> None]

\* the local variables the invocation k reads and writes
Frame(cs, k) == cs[k].frame

\* parse_resume: the page after the pages done so far, or the return
ParseStep(args, f) ==
    IF f.i >= Len(args.doc_pages) THEN [f EXCEPT !.pc = "returned"]
    ELSE LET r == ProcessPageResult(args.doc_pages[f.i + 1], f.i + 1,
                                    args.experience_key, f.resume_dict)
         IN IF r.err = "none"
            THEN [f EXCEPT !.resume_dict = r.dict, !.i = f.i + 1]
            ELSE [f EXCEPT !.pc = "raised", !.err = r.err]

\* get_years_of_experience: the stage the invocation stands at
YearsStep(args, f) ==
    CASE f.pc = "get" ->
             IF args.experience_key \notin DOMAIN args.resume_dict
                 \/ args.resume_dict[args.experience_key] = <<>>
             THEN [f EXCEPT !.pc = "returned", !.years = None]
             ELSE [f EXCEPT !.pc = "findall",
                            !.experiences = args.resume_dict[args.experience_key]]
      [] f.pc = "findall" ->
             IF FindAll(f.experiences) = <<>>
             THEN [f EXCEPT !.pc = "returned", !.years = None]
             ELSE [f EXCEPT !.pc = "parse",
                            !.year_months = FindAll(f.experiences)]
      [] f.pc = "parse" ->
             IF ParseAll(f.year_months).err # "none"
             THEN [f EXCEPT !.pc = "returned", !.years = None]
             ELSE [f EXCEPT !.pc = "compute",
                            !.parse_dates = ParseAll(f.year_months).dates]
      [] f.pc = "compute" ->
             IF f.parse_dates = <<>>
             THEN [f EXCEPT !.pc = "raised", !.err = "ValueError"]
             ELSE IF total_days(f.parse_dates) < 0
             THEN [f EXCEPT !.pc = "returned", !.years = None]
             ELSE [f EXCEPT !.pc = "returned",
                            !.years = Float(Round2(total_days(f.parse_dates)))]

\* the invocation has been left
Left(f) == f.pc \in {"returned", "raised"}

\* the documents and mappings the two invocations are given
PairDocs ==
    {<<>>,
     <<Layout(<<"Skills", "Education">>)>>,
     <<Layout(<<"Education">>), Layout(<<"Projects">>)>>,
     <<Layout(<<"Education", "Skills", "Experience">>),
       <<JobLine, NL>> \o Layout(<<"Projects", "Awards">>)>>}

PairDicts ==
    {EmptyDict}
    \cup {[k \in {"Experience"} |-> text] :
              text \in {<<>>,
                        <<Item("Jan", " ", 2019), Item(EnDash, "", 0),
                          Item("Mar", " ", 2022)>>,
                        <<Item("Mar", " ", 2022), Item("Jan", " ", 2150)>>,
                        <<Item("March", " ", 2019)>>}}

PairArgs ==
    {ParseArgs(doc, "Experience") : doc \in PairDocs}
    \cup {YearsArgs(dict, "Experience") : dict \in PairDicts}

InitPair ==
    /\ \E a, b \in PairArgs :
           calls = <<[args |-> a, frame |-> NewFrame(a)],
                     [args |-> b, frame |-> NewFrame(b)]>>
    /\ schedule = <<>>
    /\ pc = "pair"
    /\ experience_key = "Experience"
    /\ resume_dict = EmptyDict
    /\ ParseIdle
    /\ YearsIdle
    /\ SearchIdle
    /\ FilterIdle

pairIdleVars == <<doc_pages, experience_key, i, resume_dict, pc, err,
                  yearsVars, searchVars, filterVars>>

\* the invocation k of parse_resume takes its next step
ParseResumeStep(k) ==
    /\ calls[k].args.fn = "parse_resume"
    /\ Frame(calls, k).pc = "loop"
    /\ calls' = [calls EXCEPT ![k].frame = ParseStep(calls[k].args, Frame(calls, k))]
    /\ schedule' = Append(schedule, k)
    /\ UNCHANGED pairIdleVars

\* the invocation k of get_years_of_experience takes its next step
YearsOfExperienceStep(k) ==
    /\ calls[k].args.fn = "get_years_of_experience"
    /\ Frame(calls, k).pc \in {"get", "findall", "parse", "compute"}
    /\ calls' = [calls EXCEPT ![k].frame = YearsStep(calls[k].args, Frame(calls, k))]
    /\ schedule' = Append(schedule, k)
    /\ UNCHANGED pairIdleVars

NextPair ==
    \/ \E k \in 1..2 : ParseResumeStep(k)
    \/ \E k \in 1..2 : YearsOfExperienceStep(k)

SpecPair == InitPair /\ [][NextPair]_vars

(***************************************************************************)
(* filter_and_format_reviews of src/src/utils/search_utils.py (lines       *)
(* 62-86).  A review record has a url and a content; the content is a      *)
(* sequence of items: a word, a blank, a line break, a hyphen, a bracketed *)
(* note ("[1]") or a hash sign.  The list comprehension of line 73 puts    *)
(* the records of obj themselves into filtered_reviews, so the new list is *)
(* held as positions in obj.                                               *)
(***************************************************************************)
MaxReviews == 2
MaxContent == 2

Blank == " "
Hyphen == "-"
Note == "[1]"
Hash == "#"

ContentItems == {"good", Blank, NL, Hyphen, Note, Hash}

\* the urls of the model: the first two hold "review" in some case
ReviewUrls == {"glassdoor.com.au/Reviews/Acme-E1.htm",
               "indeed.com/cmp/acme/reviews"}
OtherUrl == "indeed.com/cmp/acme/jobs"

\* line 75: re.search("review", review["url"], flags=re.IGNORECASE)
UrlMatches(url) == url \in ReviewUrls

\* the items [\s\-]+ runs over
RunItems == {Blank, NL, Hyphen}

\* the text behind the run of blanks, line breaks and hyphens it starts with
RECURSIVE DropRun(_)
DropRun(text) ==
    IF text # <<>> /\ Head(text) \in RunItems THEN DropRun(Tail(text)) ELSE text

\* line 80: re.sub(r"[\s\-]+|\[.*?\]|#", " ", content): a run of blanks,
\* line breaks and hyphens, a bracketed note and a hash sign each become
\* one blank
RECURSIVE Sub(_)
Sub(text) ==
    IF text = <<>> THEN <<>>
    ELSE IF Head(text) \in RunItems THEN <<Blank>> \o Sub(DropRun(text))
    ELSE IF Head(text) \in {Note, Hash} THEN <<Blank>> \o Sub(Tail(text))
    ELSE <<Head(text)>> \o Sub(Tail(text))

\* str.strip(): the white space at both ends is removed
RECURSIVE StripBlanks(_)
StripBlanks(text) ==
    IF text # <<>> /\ Head(text) \in {Blank, NL} THEN StripBlanks(Tail(text))
    ELSE IF text # <<>> /\ text[Len(text)] \in {Blank, NL}
    THEN StripBlanks(SubSeq(text, 1, Len(text) - 1))
    ELSE text

\* lines 80-84: the cleaned content
Clean(content) == StripBlanks(Sub(content))

\* a review record; is_str is FALSE when the record has no string under
\* "content" (the key is missing or holds something else)
ReviewRecord(url, is_str, content) ==
    [url |-> url, is_str |-> is_str, content |-> content]

Contents == UNION {[1..n -> ContentItems] : n \in 0..MaxContent}

ReviewRecords ==
    {ReviewRecord(url, TRUE, content) :
         url \in ReviewUrls \cup {OtherUrl}, content \in Contents}
    \cup {ReviewRecord(url, FALSE, <<>>) : url \in ReviewUrls \cup {OtherUrl}}

InitFilter ==
    /\ obj \in UNION {[1..n -> ReviewRecords] : n \in 0..MaxReviews}
    /\ obj_before = obj
    /\ filtered_reviews = <<>>
    /\ rev = 0
    /\ pc = "filter"
    /\ experience_key = "Experience"
    /\ resume_dict = EmptyDict
    /\ ParseIdle
    /\ YearsIdle
    /\ SearchIdle
    /\ PairIdle

filterIdleVars == <<doc_pages, experience_key, i, resume_dict, err,
                    yearsVars, searchVars, pairVars>>

\* the positions from k on whose record has a matching url
RECURSIVE Kept(_)
Kept(k) ==
    IF k > Len(obj) THEN <<>>
    ELSE IF UrlMatches(obj[k].url) THEN <<k>> \o Kept(k + 1)
    ELSE Kept(k + 1)

\* lines 73-76: filtered_reviews = [review for review in obj if ...]
FilterReviews ==
    /\ pc = "filter"
    /\ filtered_reviews' = Kept(1)
    /\ rev' = 1
    /\ pc' = "clean"
    /\ UNCHANGED <<obj, obj_before, filterIdleVars>>

\* lines 78-84: one pass of "for rev in filtered_reviews"; the assignment
\* rev["content"] = ... writes into the record, which is a record of obj
CleanReview ==
    /\ pc = "clean"
    /\ rev <= Len(filtered_reviews)
    /\ obj' = IF obj[filtered_reviews[rev]].is_str
              THEN [obj EXCEPT ![filtered_reviews[rev]].content =
                                   Clean(obj[filtered_reviews[rev]].content)]
              ELSE obj
    /\ rev' = rev + 1
    /\ UNCHANGED <<obj_before, filtered_reviews, pc, filterIdleVars>>

\* line 86: return filtered_reviews
ReturnFiltered ==
    /\ pc = "clean"
    /\ rev > Len(filtered_reviews)
    /\ pc' = "returned"
    /\ UNCHANGED <<filterVars, filterIdleVars>>

NextFilter == FilterReviews \/ CleanReview \/ ReturnFiltered

SpecFilter == InitFilter /\ [][NextFilter]_vars

(***************************************************************************)
(* Vocabulary of the claims about parse_resume.                            *)
(***************************************************************************)
Finished == pc \in {"returned", "raised"}

\* number of header matches on page p of the document
MatchCount(p) == Len(Spans(doc_pages[p]))

\* the header whose match is the idx-th (0-based) of page p
HeaderOfMatch(p, idx) == doc_pages[p][Spans(doc_pages[p])[idx + 1].end]

\* the headers matched on page p
MatchedHeaders(p) == {HeaderOfMatch(p, idx) : idx \in 0..(MatchCount(p) - 1)}

\* the slice the idx-th match of page p starts
SliceOfMatch(p, idx) == section_result(doc_pages[p], Spans(doc_pages[p]), idx)

\* the text of page p from its first job-dated line up to its first header
ContinuationText(p) == Continuation(doc_pages[p], Spans(doc_pages[p]))

\* the mapping as it is after page 1
PageOneDict ==
    ProcessPageResult(doc_pages[1], 1, experience_key, EmptyDict).dict

\* the headers of page p are distinct and stand in the configured order
InConfiguredOrder(p) ==
    \A k \in 1..(MatchCount(p) - 1) :
        Spans(doc_pages[p])[k].end < Spans(doc_pages[p])[k + 1].end

\* the two-page document of C1: page 1 matches 3 distinct headers, in the
\* configured order, one of them the experience header; page 2 matches 2
\* other headers, in the configured order, and starts with continuation text
C1_Scenario ==
    /\ Len(doc_pages) = 2
    /\ InConfiguredOrder(1)
    /\ InConfiguredOrder(2)
    /\ MatchCount(1) = 3
    /\ Cardinality(MatchedHeaders(1)) = 3
    /\ experience_key \in MatchedHeaders(1)
    /\ MatchCount(2) = 2
    /\ Cardinality(MatchedHeaders(2)) = 2
    /\ MatchedHeaders(1) \cap MatchedHeaders(2) = {}
    /\ job_exper(doc_pages[2]) # {}
    /\ ContinuationText(2) # <<>>

\* the slice of page 1 that follows the experience header
C1_PageOneExperienceSlice ==
    LET idx == CHOOSE k \in 0..2 : HeaderOfMatch(1, k) = experience_key
    IN SliceOfMatch(1, idx)

\* C1: for a two-page document whose page 1 matches 3 headers (one of them
\* the experience header) and whose page 2 matches 2 headers plus
\* continuation text, the value returned under experience_key is the page-1
\* experience slice, a newline, then the page-2 continuation text.
C1_ExperienceIsSliceThenContinuation ==
    (pc = "returned" /\ C1_Scenario) =>
        /\ experience_key \in DOMAIN resume_dict
        /\ resume_dict[experience_key] =
               C1_PageOneExperienceSlice \o <<NL>> \o ContinuationText(2)

\* C2: on page 2 and later the body of the k-th header match of the page is
\* stored under the identifier at position k + (matches found on page 1),
\* so that no key written for page 1 is overwritten by a section body of a
\* later page (the experience key apart, which receives the continuation).
C2_ShiftedByPageOneCount ==
    (pc # "raised" /\ i >= 2) =>
        /\ \A idx \in 0..(MatchCount(i) - 1) :
              LET t == idx + MatchCount(1)
              IN /\ t < Len(resume_sections)
                 /\ resume_sections[t + 1] # experience_key =>
                       /\ resume_sections[t + 1] \in DOMAIN resume_dict
                       /\ resume_dict[resume_sections[t + 1]] = SliceOfMatch(i, idx)
        /\ \A k \in (DOMAIN PageOneDict) \ {experience_key} :
              k \in DOMAIN resume_dict /\ resume_dict[k] = PageOneDict[k]

\* C3: on page 1 each slice between two consecutive matched header
\* end-offsets is stored under the identifier of the header whose match
\* starts the slice (the last one running to end-of-page), also when a
\* configured header is absent from the page or matches more than once.
C3_SliceUnderItsHeader ==
    (pc # "raised" /\ i = 1) =>
        /\ DOMAIN resume_dict = MatchedHeaders(1)
        /\ \A h \in MatchedHeaders(1) :
              \E idx \in 0..(MatchCount(1) - 1) :
                  /\ HeaderOfMatch(1, idx) = h
                  /\ resume_dict[h] = SliceOfMatch(1, idx)

\* C4: when a page of the document yields zero header matches, the caller
\* gets a distinct "no sections detected on page" error, not the exception
\* of min() on an empty list.
C4_NoSectionsDetectedError ==
    (pc = "raised" /\ MatchCount(i + 1) = 0) => err = "NoSectionsDetected"

\* C5: with an experience_key that is not in the section identifier list,
\* parse_resume fails before any page is scanned and never returns a mapping.
C5_MissingExperienceKeyFailsFast ==
    (experience_key \notin Headers /\ doc_pages # <<>>) =>
        (i = 0 /\ pc # "returned")

(***************************************************************************)
(* Vocabulary of the claims about get_years_of_experience.                 *)
(***************************************************************************)
\* the experience text get_years_of_experience is called with
HasText == experience_key \in DOMAIN resume_dict

TextIs(text) == HasText /\ resume_dict[experience_key] = text

\* the month-year tokens of the experience text
TokensOfText ==
    IF HasText
    THEN {resume_dict[experience_key][k] : k \in
              {j \in 1..Len(resume_dict[experience_key]) :
                   Located(resume_dict[experience_key][j])}}
    ELSE {}

\* "Jan 2019 - Mar 2022" and "Mar 2022 - Jan 2019", the dash being U+2013
OrderedText == <<Item("Jan", " ", 2019), Item(EnDash, "", 0), Item("Mar", " ", 2022)>>
ReversedText == <<Item("Mar", " ", 2022), Item(EnDash, "", 0), Item("Jan", " ", 2019)>>

\* months since year 0 of the first-of-month date a token parses to
MonthIndex(item) == StrpTime(item).y * 12 + StrpTime(item).m - 1

\* days from the first day of month index a to the first day of month
\* index b >= a, counted month by month
RECURSIVE DaysFromTo(_, _)
DaysFromTo(a, b) ==
    IF a >= b THEN 0
    ELSE DaysInMonth(a \div 12, (a % 12) + 1) + DaysFromTo(a + 1, b)

\* h hundredths is days / 365 rounded to two decimals
IsRounded(h, days) ==
    /\ 2 * (h * DaysPerYear - 100 * days) <= DaysPerYear
    /\ 2 * (100 * days - h * DaysPerYear) <= DaysPerYear

\* C6 as stated: on the text "Mar 2022 - Jan 2019" (later date first)
\* get_years_of_experience returns the unknown sentinel None.
C6_ReversedIsUnknown ==
    (pc = "returned" /\ TextIs(ReversedText)) => years = None

\* C6 amended: on the text "Mar 2022 - Jan 2019" get_years_of_experience
\* returns 3.16, the span between the earliest and the latest date whatever
\* their order in the text; the negative-span guard does not fire.
C6_ReversedIsSpan ==
    (pc = "returned" /\ TextIs(ReversedText)) => years = Float(316)

C6_Witness ==
    pc = "returned" /\ TextIs(ReversedText) /\ Len(parse_dates) = 2

\* C7 as stated: on the text "Jan 2019 - Mar 2022" the result is 3.17.
C7_OrderedIs317 ==
    (pc = "returned" /\ TextIs(OrderedText)) => years = Float(317)

\* C7 amended: on the text "Jan 2019 - Mar 2022" the result is 3.16, the
\* 1155 days between 2019-01-01 and 2022-03-01 divided by 365 and rounded
\* to two decimals.
C7_OrderedIs316 ==
    (pc = "returned" /\ TextIs(OrderedText)) =>
        /\ total_days(parse_dates) = 1155
        /\ years = Float(316)

C7_Witness ==
    pc = "returned" /\ TextIs(OrderedText) /\ Len(parse_dates) = 2

\* C8: whenever every month-year token of the text parses, the result is
\* the number of days between the earliest and the latest parsed
\* first-of-month date, divided by 365 and rounded to two decimals; dates
\* between the two and gaps do not change it.
C8_SpanOfExtremes ==
    (Finished /\ TokensOfText # {} /\ \A t \in TokensOfText : Parses(t)) =>
        /\ pc = "returned"
        /\ ~years.none
        /\ \E a \in TokensOfText, b \in TokensOfText :
              /\ \A c \in TokensOfText :
                    MonthIndex(a) <= MonthIndex(c) /\ MonthIndex(c) <= MonthIndex(b)
              /\ IsRounded(years.hundredths,
                           DaysFromTo(MonthIndex(a), MonthIndex(b)))

\* three distinct dates, the latest first and the earliest last
C8_Witness ==
    /\ pc = "returned"
    /\ HasText
    /\ Len(parse_dates) = 3
    /\ DateLess(parse_dates[3], parse_dates[2])
    /\ DateLess(parse_dates[2], parse_dates[1])
    /\ years.hundredths > 0

\* C9: the result is None when the experience text holds no month-year
\* token, when the key is missing from the mapping and when it maps to an
\* empty string; no exception is raised.
C9_NoTokenIsUnknown ==
    (Finished /\ TokensOfText = {}) => (pc = "returned" /\ years = None)

\* a text of words and of a date whose year the pattern rejects
C9_Witness ==
    /\ pc = "returned"
    /\ HasText
    /\ Len(resume_dict[experience_key]) >= 2
    /\ TokensOfText = {}
    /\ \E k \in 1..Len(resume_dict[experience_key]) :
          resume_dict[experience_key][k].yr > 0

\* C10: if one located month-year token fails to parse, the result is None
\* for the whole text and nothing is raised, even when the other tokens are
\* valid; the bad token is not skipped.
C10_BadTokenIsUnknown ==
    (Finished /\ \E t \in TokensOfText : ~Parses(t)) =>
        (pc = "returned" /\ years = None)

\* a text with two valid tokens of different dates and a bad one
C10_Witness ==
    /\ pc = "returned"
    /\ \E t \in TokensOfText : ~Parses(t)
    /\ \E t \in TokensOfText, u \in TokensOfText :
          Parses(t) /\ Parses(u) /\ MonthIndex(t) < MonthIndex(u)

\* C11: for every input the value get_years_of_experience returns is None
\* or a number greater than or equal to zero; a negative duration is never
\* returned.
C11_NeverNegative ==
    Finished => (pc = "returned" /\ (years.none \/ years.hundredths >= 0))

\* a number is returned for dates that stand latest first in the text
C11_Witness ==
    /\ pc = "returned"
    /\ ~years.none
    /\ Len(parse_dates) >= 2
    /\ DateLess(parse_dates[Len(parse_dates)], parse_dates[1])

\* C12: get_years_of_experience returns None whenever no valid date pair
\* can be found in the text, in particular when the text holds exactly one
\* parseable month-year token ("Jan 2019 - Present"); it returns no number
\* in that case.
C12_SingleTokenIsUnknown ==
    (pc = "returned" /\ HasText
        /\ Len(FindAll(resume_dict[experience_key])) = 1
        /\ \A t \in TokensOfText : Parses(t)) => years = None

(***************************************************************************)
(* Claims about the slices of a page and the offsets that bound them.      *)
(***************************************************************************)
\* the text without its header tokens
WithoutHeaders(s) == SelectSeq(s, LAMBDA x : x \notin Headers)

\* the text without its white space
Squeeze(s) == SelectSeq(s, LAMBDA x : x \notin Whitespace)

\* the values of the mapping from the key s of resume_sections on, joined
RECURSIVE BodiesFrom(_)
BodiesFrom(s) ==
    IF s > Len(resume_sections) THEN <<>>
    ELSE Get(resume_dict, resume_sections[s], <<>>) \o BodiesFrom(s + 1)

\* the text of page p from the start of its earliest header on
FromFirstHeader(p) == SliceFrom(doc_pages[p], min_span(Spans(doc_pages[p])))

\* C13: for a single-page document whose headers are distinct and stand in
\* configured order, the section bodies in the returned mapping, joined in
\* the order of their headers on the page, are the page text from the first
\* header on with the header tokens removed (white space aside), and no
\* body holds a header token.
C13_BodiesRebuildPage ==
    (pc = "returned" /\ Len(doc_pages) = 1 /\ InConfiguredOrder(1)
        /\ Cardinality(MatchedHeaders(1)) = MatchCount(1)) =>
        /\ \A k \in DOMAIN resume_dict :
               \A j \in 1..Len(resume_dict[k]) : resume_dict[k][j] \notin Headers
        /\ Squeeze(BodiesFrom(1)) = Squeeze(WithoutHeaders(FromFirstHeader(1)))

\* page p has been scanned: processed to its end, or left by an exception
Scanned(p) == p <= i \/ (pc = "raised" /\ p = i + 1)

\* the largest end offset among the matches of page p
MaxEnd(p) ==
    LET spans == Spans(doc_pages[p])
    IN CHOOSE e \in {spans[k].end : k \in DOMAIN spans} :
           \A k \in DOMAIN spans : spans[k].end <= e

\* C14: on every scanned page with a header match, max_span is the largest
\* end offset over all header matches of the page, in whatever order the
\* headers stand on the page.
C14_MaxSpanIsMaximum ==
    \A p \in 1..Len(doc_pages) :
        (Scanned(p) /\ MatchCount(p) > 0) =>
            max_span(Spans(doc_pages[p])) = MaxEnd(p)

(***************************************************************************)
(* Claims about the pages after the first.                                 *)
(***************************************************************************)
\* C15: whenever a page 2 or later that starts with continuation text is
\* processed to its end, the value under experience_key afterwards is the
\* value accumulated under it before the page (the label "Professional
\* Experience" when there was none), a newline, and the text of the page
\* from its first job-dated line up to its earliest header.
C15_ContinuationAppended ==
    [][(pc = "loop" /\ i >= 1 /\ i' = i + 1
            /\ ContinuationText(i + 1) # <<>>) =>
           /\ experience_key \in DOMAIN resume_dict'
           /\ resume_dict'[experience_key] =
                  Get(resume_dict, experience_key, <<DefaultLabel>>)
                      \o <<NL>> \o ContinuationText(i + 1)]_vars

\* page p holds a job-dated line, so that the continuation step finds one
HasJobLine(p) == job_exper(doc_pages[p]) # {}

\* C18: on every scanned page with a header match (and, after page 1, with
\* a job-dated line), the position every match is stored under, idx on page
\* 1 and idx plus the page's match count on later pages, lies inside
\* resume_sections, and the page does not raise IndexError.
C18_TargetInRange ==
    \A p \in 1..Len(doc_pages) :
        (Scanned(p) /\ MatchCount(p) > 0 /\ (p = 1 \/ HasJobLine(p))) =>
            /\ \A idx \in 0..(MatchCount(p) - 1) :
                   TargetIndex(p, idx, MatchCount(p)) < Len(resume_sections)
            /\ ~(pc = "raised" /\ p = i + 1 /\ err = "IndexError")

\* every match of page p is stored under a position inside resume_sections
TargetsInRange(p) ==
    \A idx \in 0..(MatchCount(p) - 1) :
        TargetIndex(p, idx, MatchCount(p)) < Len(resume_sections)

\* the identifiers the matches of page p are stored under
TargetKeys(p) ==
    {resume_sections[TargetIndex(p, idx, MatchCount(p)) + 1] :
         idx \in 0..(MatchCount(p) - 1)}

\* C19: a page 2 or later with a header match and without a job-dated line
\* (its targets inside resume_sections) is processed to its end: the step
\* does not raise, every target identifier holds a body afterwards, and the
\* value under experience_key stays as it was unless a body of the page is
\* stored under it.
C19_NoJobLineCompletes ==
    [][(pc = "loop" /\ i >= 1 /\ i < Len(doc_pages)
            /\ MatchCount(i + 1) > 0 /\ ~HasJobLine(i + 1)
            /\ TargetsInRange(i + 1)) =>
           /\ pc' = "loop" /\ i' = i + 1
           /\ TargetKeys(i + 1) \subseteq DOMAIN resume_dict'
           /\ experience_key \notin TargetKeys(i + 1) =>
                  /\ (experience_key \in DOMAIN resume_dict') =
                         (experience_key \in DOMAIN resume_dict)
                  /\ experience_key \in DOMAIN resume_dict =>
                         resume_dict'[experience_key] = resume_dict[experience_key]
      ]_vars

(***************************************************************************)
(* Claims about search_reviews_all_companies.                              *)
(***************************************************************************)
\* the searches whose query is out and whose answer has not arrived
InFlight == {c \in DOMAIN searches : searches[c].state = "running"}

\* the search at position c has begun
Started(c) == searches[c].state \in {"running", "done"}

\* the batch (0-based) the position c falls into
BatchOf(c) == (c - 1) \div batch_size

\* the per-company result lists of the first n companies, joined in the
\* order of companies
RECURSIVE ExpectedUpTo(_)
ExpectedUpTo(n) ==
    IF n = 0 THEN <<>>
    ELSE ExpectedUpTo(n - 1) \o search_reviews(companies[n])

\* C17: at no moment are more than batch_size searches in flight, and when
\* a search of a batch has begun, every search of the batches before it is
\* done and the results of those batches stand at the front of all_results.
C17_BatchesInSequence ==
    /\ Cardinality(InFlight) <= batch_size
    /\ \A c \in DOMAIN searches :
           Started(c) =>
               LET n == BatchOf(c) * batch_size
               IN /\ \A d \in 1..n : searches[d].state = "done"
                  /\ Len(all_results) >= Len(ExpectedUpTo(n))
                  /\ SubSeq(all_results, 1, Len(ExpectedUpTo(n)))
                         = ExpectedUpTo(n)

\* a full batch is in flight after an earlier batch has left its results
C17_Witness ==
    /\ i_batch > 0
    /\ batch_size >= 2
    /\ Cardinality(InFlight) = batch_size
    /\ all_results # <<>>

\* C20: the list search_reviews_all_companies returns is the per-company
\* result lists joined in the order of companies, in whatever order the
\* searches of a batch finished; when the companies are distinct, a record
\* of a company never stands behind a record of a company listed after it.
C20_ResultsInInputOrder ==
    pc = "returned" =>
        /\ all_results = ExpectedUpTo(Len(companies))
        /\ (\A a, b \in DOMAIN companies : a # b => companies[a] # companies[b]) =>
               \A p, q \in DOMAIN all_results :
                   p < q =>
                       \A a, b \in DOMAIN companies :
                           (companies[a] = all_results[p].company
                               /\ companies[b] = all_results[q].company) => a <= b

\* a list is returned after a batch whose later company answered first,
\* both companies having records
C20_Witness ==
    /\ pc = "returned"
    /\ \E a, b \in DOMAIN completed :
           /\ a < b
           /\ completed[a] > completed[b]
           /\ BatchOf(completed[a]) = BatchOf(completed[b])
           /\ search_reviews(companies[completed[a]]) # <<>>
           /\ search_reviews(companies[completed[b]]) # <<>>
           /\ companies[completed[a]] # companies[completed[b]]

(***************************************************************************)
(* Invocations running side by side.  ParseResumeStep and                  *)
(* YearsOfExperienceStep rewrite the frame of their own invocation only,   *)
(* as the functions assign local names only; that an invocation then ends  *)
(* as it ends alone holds of any bodies of ParseStep and YearsStep, so it  *)
(* is not stated as a formula here.                                        *)
(***************************************************************************)

(***************************************************************************)
(* Claims about a failing search.                                          *)
(***************************************************************************)
\* a search has ended with an exception
SomeSearchFailed == \E c \in DOMAIN searches : searches[c].state = "failed"

\* nothing is returned and no task exists for a company of a batch behind
\* the batch of a failed search
FailureStopsTheCall ==
    /\ pc # "returned"
    /\ \A c, d \in DOMAIN searches :
           (searches[c].state = "failed" /\ BatchOf(d) > BatchOf(c)) =>
               searches[d] = NotCreated

\* C21: once a search of a batch has failed, search_reviews_all_companies
\* never returns a list and never starts a search of a later batch, and it
\* is left by the exception of the task group.
C21_FailureRaises ==
    /\ [](SomeSearchFailed => FailureStopsTheCall)
    /\ SomeSearchFailed ~> (pc = "raised" /\ err = "ExceptionGroup")

\* the call has raised after an earlier batch had left results, with a
\* later batch never started
C21_Witness ==
    /\ pc = "raised"
    /\ SomeSearchFailed
    /\ all_results # <<>>
    /\ \E d \in DOMAIN searches : searches[d] = NotCreated

(***************************************************************************)
(* Claims about filter_and_format_reviews.                                 *)
(***************************************************************************)
\* C22: when filter_and_format_reviews has returned, the list it was called
\* with holds the records it held at the call, every record with the
\* content and the other fields it had, the kept records included.
C22_InputUnchanged ==
    pc = "returned" => obj = obj_before


====
